---- MODULE Spec2Model ----
(***************************************************************************)
(* A model of src/src/lib.rs: the container Vec<T>, its read-only cursor   *)
(* VecIterator, its exclusive cursor VecMutIterator (raw pointer walk),    *)
(* the adapters Filter and MapIter, and the default methods find and fold  *)
(* of the Iterator trait.                                                  *)
(*                                                                         *)
(* Option<T> is a sequence: None is <<>> and Some(v) is <<v>>.             *)
(* Addresses are integers, counted in bytes; an element of type T takes    *)
(* `width` bytes (size_of::<T>()), which is 0 for a zero-sized type.       *)
(***************************************************************************)
EXTENDS Integers, Sequences, FiniteSets, TLC

\* Bounds of the model.
MaxLen == 3
MaxExtra == 2
MaxStages == 2

\* size_of::<T>() of the element types explored.
Widths == {0, 2}
\* Start addresses of the backing buffer explored; the cursors use addresses
\* relative to it only.
Addrs == {16}
\* Cursor variables of the caller; Solo are those the single-cursor
\* specification uses.
Slots == {1, 2}
Solo == {1}
\* User closures given to find, to filter, to map, and to fold.
PredNames == {"odd", "gt1"}
FilterPreds == {"odd"}
FnNames == {"dbl", "inc"}
CombNames == {"add", "horner"}
Inits == {0, 1}

VARIABLES
    width,   \* size_of::<T>() of the container's element type
    vec,     \* Vec::vec, the elements in buffer order
    buf,     \* address of the backing buffer (vec.as_mut_ptr())
    cur,     \* the caller's cursors, by slot
    last,    \* the last call made and what it returned
    shadow   \* the container's contents as the contract has them: what
             \* each position holds and whether add or a write put it there

vars == <<width, vec, buf, cur, last, shadow>>

None == <<>>
Some(v) == <<v>>

\* The values of an element type of the given width explored: a zero-sized
\* type has exactly one value.
ElemsOf(w) == IF w = 0 THEN {0} ELSE {1, 2}

Pred(p, v) ==
    CASE p = "odd" -> v % 2 = 1
      [] p = "gt1" -> v > 1

Fn(f, v) ==
    CASE f = "dbl" -> v * 2
      [] f = "inc" -> v + 1

Comb(c, a, x) ==
    CASE c = "add" -> a + x
      [] c = "horner" -> a * 2 + x

NoCursor == [kind |-> "none"]

Alive(s) == cur[s] # NoCursor
IsRO(c) == c # NoCursor /\ c.base.kind = "VecIterator"
IsMut(c) == c # NoCursor /\ c.base.kind = "VecMutIterator"

\* Mutant: the exclusive cursor does not hold the borrow ('a is not tied to
\* the Vec), so only shared borrows stand in the way of &mut self.
CanBorrowMut_Untied == \A s \in Slots : ~IsRO(cur[s])

\* What the borrow checker admits: &self needs no live &mut borrow, &mut self
\* needs no live borrow at all.
CanBorrowShared == \A s \in Slots : ~IsMut(cur[s])
CanBorrowMut == \A s \in Slots : cur[s] = NoCursor

Call(op, s, fn, n, val, ret, calls) ==
    [op |-> op, slot |-> s, fn |-> fn, n |-> n, val |-> val, ret |-> ret,
     calls |-> calls]

\* A cursor as the caller holds it: the base iterator and the adapters wrapped
\* around it (innermost first), with the record of what it did: calls[d] counts
\* the invocations of stage d's closure, `from` is the base position when the
\* cursor took its present shape, outs the results of its next() since then,
\* issued the addresses the exclusive base cursor handed out, written those
\* the caller wrote through.
Cursor(b, pos) ==
    [base |-> b, stages |-> <<>>, calls |-> <<>>, from |-> pos, outs |-> <<>>,
     issued |-> <<>>, written |-> {}]

(***************************************************************************)
(* Memory of the backing buffer.                                           *)
(***************************************************************************)
InBuffer(a) ==
    /\ width > 0
    /\ a >= buf
    /\ a < buf + Len(vec) * width
    /\ (a - buf) % width = 0

IndexOf(a) == ((a - buf) \div width) + 1

\* Reading through a pointer. A zero-sized read is always the one value of
\* the type; a read outside the buffer yields whatever is there (junk).
Deref(a, junk) ==
    IF width = 0 THEN 0
    ELSE IF InBuffer(a) THEN vec[IndexOf(a)]
    ELSE junk

\* Writing through a pointer. A write outside the buffer does not touch the
\* container's elements.
Store(a, x) ==
    IF InBuffer(a) THEN [vec EXCEPT ![IndexOf(a)] = x] ELSE vec

(***************************************************************************)
(* Vec                                                                     *)
(***************************************************************************)
\* Mutant: the position is shared with a cursor already alive.
VecIter_SharedPosition ==
    [kind |-> "VecIterator",
     idx |-> IF \E t \in Slots : IsRO(cur[t])
             THEN cur[CHOOSE t \in Slots : IsRO(cur[t])].base.idx
             ELSE 0]

VecIter == [kind |-> "VecIterator", idx |-> 0]

\* Mutant: the end pointer is taken one element too far.
VecMutIteratorNew_OnePast ==
    [kind |-> "VecMutIterator", ptr |-> buf,
     end |-> buf + (Len(vec) + 1) * width]

VecMutIteratorNew ==
    [kind |-> "VecMutIterator", ptr |-> buf, end |-> buf + Len(vec) * width]

(***************************************************************************)
(* next() of the two base cursors                                          *)
(***************************************************************************)
\* Mutant: the bound test is off by one and stops before the last element.
VecIteratorNext_OffByOne(it) ==
    IF it.idx + 1 >= Len(vec)
    THEN [ret |-> None, it |-> it]
    ELSE [ret |-> Some(vec[it.idx + 1]), it |-> [it EXCEPT !.idx = @ + 1]]

\* Mutant: the index is advanced by two.
VecIteratorNext_StepsTwo(it) ==
    IF it.idx >= Len(vec)
    THEN [ret |-> None, it |-> it]
    ELSE [ret |-> Some(vec[it.idx + 1]), it |-> [it EXCEPT !.idx = @ + 2]]

\* Mutant: the index is counted up on an exhausted call too.
VecIteratorNext_CountsPastEnd(it) ==
    IF it.idx >= Len(vec)
    THEN [ret |-> None, it |-> [it EXCEPT !.idx = @ + 1]]
    ELSE [ret |-> Some(vec[it.idx + 1]), it |-> [it EXCEPT !.idx = @ + 1]]

\* Mutant: an exhausted call rewinds the cursor to the start.
VecIteratorNext_Rewinds(it) ==
    IF it.idx >= Len(vec)
    THEN [ret |-> None, it |-> [it EXCEPT !.idx = 0]]
    ELSE [ret |-> Some(vec[it.idx + 1]), it |-> [it EXCEPT !.idx = @ + 1]]

VecIteratorNext(it) ==
    IF it.idx >= Len(vec)
    THEN [ret |-> None, it |-> it]
    ELSE [ret |-> Some(vec[it.idx + 1]), it |-> [it EXCEPT !.idx = @ + 1]]

\* Mutant: the pointer is advanced before it is dereferenced.
VecMutIteratorNext_PreIncrement(it, junk) ==
    IF it.ptr = it.end
    THEN [ret |-> None, ref |-> None, it |-> it]
    ELSE [ret |-> Some(Deref(it.ptr + width, junk)),
          ref |-> Some(it.ptr + width),
          it |-> [it EXCEPT !.ptr = @ + width]]

\* Mutant: the pointer is advanced by one byte, not by one element.
VecMutIteratorNext_ByteStep(it, junk) ==
    IF it.ptr = it.end
    THEN [ret |-> None, ref |-> None, it |-> it]
    ELSE [ret |-> Some(Deref(it.ptr, junk)), ref |-> Some(it.ptr),
          it |-> [it EXCEPT !.ptr = @ + 1]]

VecMutIteratorNext(it, junk) ==
    IF it.ptr = it.end
    THEN [ret |-> None, ref |-> None, it |-> it]
    ELSE [ret |-> Some(Deref(it.ptr, junk)), ref |-> Some(it.ptr),
          it |-> [it EXCEPT !.ptr = @ + width]]

BaseNext(c, junk) ==
    IF c.base.kind = "VecIterator"
    THEN LET r == VecIteratorNext(c.base)
         IN [ret |-> r.ret, c |-> [c EXCEPT !.base = r.it]]
    ELSE LET r == VecMutIteratorNext(c.base, junk)
         IN [ret |-> r.ret,
             c |-> [c EXCEPT !.base = r.it, !.issued = @ \o r.ref]]

(***************************************************************************)
(* Adapters: next() of the cursor made of the base and its first d stages  *)
(***************************************************************************)
RECURSIVE StageNext(_, _, _)
RECURSIVE FilterNext(_, _, _)

\* Mutant: the loop gives up at the first item the predicate rejects.
FilterNext_StopsAtMismatch(c, d, junk) ==
    LET r == StageNext(c, d - 1, junk)
    IN IF r.ret = None THEN r
       ELSE LET c1 == [r.c EXCEPT !.calls[d] = @ + 1]
            IN IF Pred(c.stages[d].fn, r.ret[1])
               THEN [ret |-> r.ret, c |-> c1]
               ELSE [ret |-> None, c |-> c1]

\* Mutant: after a rejected item the next upstream item is returned untested.
FilterNext_UntestedAfterReject(c, d, junk) ==
    LET r == StageNext(c, d - 1, junk)
    IN IF r.ret = None THEN r
       ELSE LET c1 == [r.c EXCEPT !.calls[d] = @ + 1]
            IN IF Pred(c.stages[d].fn, r.ret[1])
               THEN [ret |-> r.ret, c |-> c1]
               ELSE StageNext(c1, d - 1, junk)

FilterNext(c, d, junk) ==
    LET r == StageNext(c, d - 1, junk)
    IN IF r.ret = None THEN r
       ELSE LET c1 == [r.c EXCEPT !.calls[d] = @ + 1]
            IN IF Pred(c.stages[d].fn, r.ret[1])
               THEN [ret |-> r.ret, c |-> c1]
               ELSE FilterNext(c1, d, junk)

\* Mutant: the upstream item is passed on without the transform.
MapIterNext_NoTransform(c, d, junk) ==
    LET r == StageNext(c, d - 1, junk)
    IN IF r.ret = None THEN r
       ELSE [ret |-> r.ret, c |-> [r.c EXCEPT !.calls[d] = @ + 1]]

\* Mutant: the wrapped cursor is pulled twice and its first item dropped.
MapIterNext_PullsTwice(c, d, junk) ==
    LET r0 == StageNext(c, d - 1, junk)
        r == StageNext(r0.c, d - 1, junk)
    IN IF r.ret = None THEN r
       ELSE [ret |-> Some(Fn(c.stages[d].fn, r.ret[1])),
             c |-> [r.c EXCEPT !.calls[d] = @ + 1]]

MapIterNext(c, d, junk) ==
    LET r == StageNext(c, d - 1, junk)
    IN IF r.ret = None THEN r
       ELSE [ret |-> Some(Fn(c.stages[d].fn, r.ret[1])),
             c |-> [r.c EXCEPT !.calls[d] = @ + 1]]

StageNext(c, d, junk) ==
    IF d = 0 THEN BaseNext(c, junk)
    ELSE IF c.stages[d].kind = "filter" THEN FilterNext(c, d, junk)
    ELSE MapIterNext(c, d, junk)

\* next() as the caller makes it, on the outermost stage.
CursorNext(c, junk) ==
    LET r == StageNext(c, Len(c.stages), junk)
    IN [ret |-> r.ret, c |-> [r.c EXCEPT !.outs = Append(@, r.ret)]]

\* Mutant: the adapter looks for its first item when it is built.
IteratorFilter_Eager(c, p) ==
    LET w == [c EXCEPT !.stages = Append(@, [kind |-> "filter", fn |-> p]),
                       !.calls = Append(@, 0)]
    IN StageNext(w, Len(w.stages), 0).c

IteratorFilter(c, p) ==
    [c EXCEPT !.stages = Append(@, [kind |-> "filter", fn |-> p]),
              !.calls = Append(@, 0)]

IteratorMap(c, f) ==
    [c EXCEPT !.stages = Append(@, [kind |-> "map", fn |-> f]),
              !.calls = Append(@, 0)]

(***************************************************************************)
(* Iterator::find and Iterator::fold                                       *)
(***************************************************************************)
\* Mutant: the predicate test is negated.
RECURSIVE IteratorFind_Negated(_, _, _)
IteratorFind_Negated(c, p, junk) ==
    LET r == CursorNext(c, junk)
    IN IF r.ret = None THEN r
       ELSE IF ~Pred(p, r.ret[1]) THEN r
       ELSE IteratorFind_Negated(r.c, p, junk)

\* Mutant: after the match the rest of the cursor is drained.
RECURSIVE Drain(_, _)
Drain(c, junk) ==
    LET r == CursorNext(c, junk)
    IN IF r.ret = None THEN r.c ELSE Drain(r.c, junk)

RECURSIVE IteratorFind_Drains(_, _, _)
IteratorFind_Drains(c, p, junk) ==
    LET r == CursorNext(c, junk)
    IN IF r.ret = None THEN r
       ELSE IF Pred(p, r.ret[1]) THEN [ret |-> r.ret, c |-> Drain(r.c, junk)]
       ELSE IteratorFind_Drains(r.c, p, junk)

RECURSIVE IteratorFind(_, _, _)
IteratorFind(c, p, junk) ==
    LET r == CursorNext(c, junk)
    IN IF r.ret = None THEN r
       ELSE IF Pred(p, r.ret[1]) THEN r
       ELSE IteratorFind(r.c, p, junk)

\* Mutant: the combiner's arguments are swapped.
RECURSIVE IteratorFoldLoop_Swapped(_, _, _, _, _)
IteratorFoldLoop_Swapped(c, accum, f, junk, n) ==
    LET r == CursorNext(c, junk)
    IN IF r.ret = None THEN [ret |-> accum, c |-> r.c, calls |-> n]
       ELSE IteratorFoldLoop_Swapped(r.c, Comb(f, r.ret[1], accum), f, junk,
                                     n + 1)

RECURSIVE IteratorFoldLoop(_, _, _, _, _)
IteratorFoldLoop(c, accum, f, junk, n) ==
    LET r == CursorNext(c, junk)
    IN IF r.ret = None THEN [ret |-> accum, c |-> r.c, calls |-> n]
       ELSE IteratorFoldLoop(r.c, Comb(f, accum, r.ret[1]), f, junk, n + 1)

IteratorFold(c, init, f, junk) == IteratorFoldLoop(c, init, f, junk, 0)

(***************************************************************************)
(* Bookkeeping of the caller's side                                        *)
(***************************************************************************)
BasePos(c) == IF IsRO(c) THEN c.base.idx ELSE c.base.ptr

\* A cursor about to take a new shape: its record of results starts again.
Reshaped(c) ==
    [c EXCEPT !.calls = [d \in 1..Len(c.stages) |-> 0],
              !.from = BasePos(c), !.outs = <<>>]

Exhausts(c) == Cardinality({i \in 1..Len(c.outs) : c.outs[i] = None})

(***************************************************************************)
(* Actions                                                                 *)
(***************************************************************************)
Init ==
    /\ width \in Widths
    /\ vec = <<>>
    /\ buf \in Addrs
    /\ cur = [s \in Slots |-> NoCursor]
    /\ last = Call("new", 0, "-", 0, 0, None, 0)
    /\ shadow = <<>>

\* Vec::add: push may move the buffer.
Add(v) ==
    /\ CanBorrowMut
    /\ Len(vec) < MaxLen
    /\ vec' = Append(vec, v)
    /\ buf' \in Addrs
    /\ shadow' = Append(shadow, [val |-> v, by |-> "add"])
    /\ last' = Call("add", 0, "-", 0, v, None, 0)
    /\ UNCHANGED <<width, cur>>

Iter(s) ==
    /\ cur[s] = NoCursor
    /\ CanBorrowShared
    /\ cur' = [cur EXCEPT ![s] = Cursor(VecIter, 0)]
    /\ last' = Call("iter", s, "-", 0, 0, None, 0)
    /\ UNCHANGED <<width, vec, buf, shadow>>

IterMut(s) ==
    /\ CanBorrowMut
    /\ cur' = [cur EXCEPT ![s] = Cursor(VecMutIteratorNew, VecMutIteratorNew.ptr)]
    /\ last' = Call("iter_mut", s, "-", 0, 0, None, 0)
    /\ UNCHANGED <<width, vec, buf, shadow>>

Filter(s, p) ==
    /\ Alive(s)
    /\ Len(cur[s].stages) < MaxStages
    /\ cur' = [cur EXCEPT ![s] = IteratorFilter(Reshaped(cur[s]), p)]
    /\ last' = Call("filter", s, p, 0, 0, None, 0)
    /\ UNCHANGED <<width, vec, buf, shadow>>

Map(s, f) ==
    /\ Alive(s)
    /\ Len(cur[s].stages) < MaxStages
    /\ cur' = [cur EXCEPT ![s] = IteratorMap(Reshaped(cur[s]), f)]
    /\ last' = Call("map", s, f, 0, 0, None, 0)
    /\ UNCHANGED <<width, vec, buf, shadow>>

Next_(s) ==
    /\ Alive(s)
    /\ Exhausts(cur[s]) < MaxExtra
    /\ \E junk \in ElemsOf(width) :
        LET r == CursorNext(cur[s], junk)
        IN /\ cur' = [cur EXCEPT ![s] = r.c]
           /\ last' = Call("next", s, "-", 0, 0, r.ret, 0)
    /\ UNCHANGED <<width, vec, buf, shadow>>

Find(s, p) ==
    /\ Alive(s)
    /\ Exhausts(cur[s]) < MaxExtra
    /\ \E junk \in ElemsOf(width) :
        LET r == IteratorFind(cur[s], p, junk)
        IN /\ cur' = [cur EXCEPT ![s] = r.c]
           /\ last' = Call("find", s, p, 0, 0, r.ret, 0)
    /\ UNCHANGED <<width, vec, buf, shadow>>

\* fold takes the cursor by value: it is gone afterwards.
Fold(s, init, f) ==
    /\ Alive(s)
    /\ \E junk \in ElemsOf(width) :
        LET r == IteratorFold(cur[s], init, f, junk)
        IN last' = Call("fold", s, f, init, 0, Some(r.ret), r.calls)
    /\ cur' = [cur EXCEPT ![s] = NoCursor]
    /\ UNCHANGED <<width, vec, buf, shadow>>

\* *value = x through the i-th reference the exclusive cursor handed out. The
\* caller holds every reference a bare cursor returned from its next().
Write(s, i, x) ==
    /\ IsMut(cur[s])
    /\ cur[s].stages = <<>>
    /\ i \in 1..Len(cur[s].issued)
    /\ vec' = Store(cur[s].issued[i], x)
    /\ shadow' = [shadow EXCEPT ![i] = [val |-> x, by |-> "write"]]
    /\ cur' = [cur EXCEPT ![s].written = @ \cup {i}]
    /\ last' = Call("write", s, "-", i, x, None, 0)
    /\ UNCHANGED <<width, buf>>

\* The cursor, and every reference obtained from it, goes out of scope.
Drop(s) ==
    /\ Alive(s)
    /\ cur' = [cur EXCEPT ![s] = NoCursor]
    /\ last' = Call("drop", s, "-", 0, 0, None, 0)
    /\ UNCHANGED <<width, vec, buf, shadow>>

Next ==
    \/ \E v \in ElemsOf(width) : Add(v)
    \/ \E s \in Solo : Iter(s)
    \/ \E s \in Solo : IterMut(s)
    \/ \E s \in Solo, p \in FilterPreds : Filter(s, p)
    \/ \E s \in Solo, f \in FnNames : Map(s, f)
    \/ \E s \in Solo : Next_(s)
    \/ \E s \in Solo, p \in PredNames : Find(s, p)
    \/ \E s \in Solo, init \in Inits, f \in CombNames : Fold(s, init, f)
    \/ \E s \in Solo : Drop(s)

\* The library's operations, one cursor at a time.
Spec == Init /\ [][Next]_vars

\* A caller that also writes through the references an exclusive cursor gave
\* it, using the base cursors alone.
NextWrite ==
    \/ \E v \in ElemsOf(width) : Add(v)
    \/ \E s \in Solo : Iter(s)
    \/ \E s \in Solo : IterMut(s)
    \/ \E s \in Solo : Next_(s)
    \/ \E s \in Solo, i \in 1..MaxLen, x \in ElemsOf(width) : Write(s, i, x)
    \/ \E s \in Solo : Drop(s)

SpecWrite == Init /\ [][NextWrite]_vars

\* A caller holding two cursor variables over the base cursors.
NextPair ==
    \/ \E v \in ElemsOf(width) : Add(v)
    \/ \E s \in Slots : Iter(s)
    \/ \E s \in Slots : IterMut(s)
    \/ \E s \in Slots : Next_(s)
    \/ \E s \in Slots, p \in PredNames : Find(s, p)
    \/ \E s \in Slots : Drop(s)

SpecPair == Init /\ [][NextPair]_vars

(***************************************************************************)
(* What a cursor is meant to yield, stated on sequences.                   *)
(***************************************************************************)
\* The elements a base cursor at position pos has still to yield.
BaseItems(c, pos) ==
    IF IsRO(c) THEN SubSeq(vec, pos + 1, Len(vec))
    ELSE IF pos = c.base.end THEN <<>>
    ELSE [i \in 1..((c.base.end - pos) \div width) |->
            vec[IndexOf(pos + (i - 1) * width)]]

Filtered(p, seq) == SelectSeq(seq, LAMBDA v : Pred(p, v))
Mapped(f, seq) == [i \in 1..Len(seq) |-> Fn(f, seq[i])]

RECURSIVE Through(_, _, _)
Through(stages, d, seq) ==
    IF d = 0 THEN seq
    ELSE LET up == Through(stages, d - 1, seq)
         IN IF stages[d].kind = "filter" THEN Filtered(stages[d].fn, up)
            ELSE Mapped(stages[d].fn, up)

\* The items cursor c has still to yield.
Remaining(c) == Through(c.stages, Len(c.stages), BaseItems(c, BasePos(c)))

\* outs is a run of the items of seq followed by exhausted results only.
YieldsThenExhausted(outs, seq) ==
    \A i \in 1..Len(outs) :
        outs[i] = IF i <= Len(seq) THEN Some(seq[i]) ELSE None

FirstMatch(p, seq) ==
    LET M == {i \in 1..Len(seq) : Pred(p, seq[i])}
    IN IF M = {} THEN 0 ELSE CHOOSE i \in M : \A j \in M : i <= j

RECURSIVE FoldLeft(_, _, _)
FoldLeft(f, init, seq) ==
    IF seq = <<>> THEN init
    ELSE Comb(f, FoldLeft(f, init, SubSeq(seq, 1, Len(seq) - 1)), seq[Len(seq)])

Added == [i \in 1..Len(shadow) |-> shadow[i].val]

Bare(c) == c # NoCursor /\ c.stages = <<>>

(***************************************************************************)
(* Claims                                                                  *)
(***************************************************************************)

\* C1: a read-only cursor from iter() over a container built by add(e1), ...,
\* add(en) returns e1..en in that order on its first n next() calls and
\* exhausted on call n+1 and every later call.
C1_ReadOnlyYieldsAdded ==
    \A s \in Slots :
        IsRO(cur[s]) /\ Bare(cur[s]) =>
            YieldsThenExhausted(cur[s].outs, Added)

C1_Witness ==
    \E s \in Slots :
        /\ IsRO(cur[s]) /\ Bare(cur[s])
        /\ Len(vec) >= 2
        /\ vec[1] # vec[2]
        /\ Len(cur[s].outs) >= Len(vec) + 2

\* C2: an exclusive cursor from iter_mut() over e1..en returns on its i-th
\* next() call (1 <= i <= n) a reference to the element at
\* first_address + (i-1) element widths, and exhausted on call n+1.
C2_ExclusiveYieldsAll ==
    \A s \in Slots :
        IsMut(cur[s]) /\ Bare(cur[s]) =>
            \A i \in 1..Len(cur[s].outs) :
                IF i <= Len(vec)
                THEN /\ cur[s].outs[i] # None
                     /\ i <= Len(cur[s].issued)
                     /\ cur[s].issued[i] = buf + (i - 1) * width
                ELSE cur[s].outs[i] = None

\* C3: no two references an exclusive cursor returned designate the same or
\* overlapping memory, and every one lies inside [first_address, end_address):
\* the cursor never dereferences end_address or anything past it.
C3_NoAliasInBounds ==
    \A s \in Slots :
        IsMut(cur[s]) =>
            LET is == cur[s].issued
            IN /\ \A i \in 1..Len(is) :
                    /\ buf <= is[i]
                    /\ is[i] + width <= buf + Len(vec) * width
                    /\ is[i] < buf + Len(vec) * width
               /\ \A i, j \in 1..Len(is) :
                    i < j => is[i] + width <= is[j] \/ is[j] + width <= is[i]

C3_Witness ==
    \E s \in Slots :
        /\ IsMut(cur[s])
        /\ Len(cur[s].issued) >= 3
        /\ Len(cur[s].outs) > Len(cur[s].issued)

\* C4: a value x written through the reference an exclusive cursor returned
\* for element i is what a fresh cursor (iter() or iter_mut()) yields at
\* position i, and every other element is yielded unchanged.
C4_WriteThenRead ==
    (\E i \in 1..Len(shadow) : shadow[i].by = "write") =>
        /\ vec = Added
        /\ \A s \in Slots :
            Bare(cur[s]) =>
                \A j \in 1..Len(cur[s].outs) :
                    j <= Len(shadow) /\ j \notin cur[s].written =>
                        cur[s].outs[j] = Some(shadow[j].val)

C4_Witness ==
    \E s \in Slots :
        /\ Bare(cur[s])
        /\ cur[s].written = {}
        /\ Len(cur[s].outs) > Len(vec)
        /\ \E j, k \in 1..Len(shadow) :
            /\ shadow[j].by = "write"
            /\ shadow[k].by = "add"
            /\ shadow[j].val # shadow[k].val

\* C5: an exclusive cursor created on an empty container has
\* first_address = end_address, and its first next() returns exhausted
\* without dereferencing any address.
C5_EmptyExclusive ==
    \A s \in Slots :
        IsMut(cur[s]) /\ Len(vec) = 0 =>
            /\ cur[s].base.end = buf
            /\ cur[s].base.ptr = cur[s].base.end
            /\ cur[s].issued = <<>>
            /\ \A i \in 1..Len(cur[s].outs) : cur[s].outs[i] = None

C5_Witness ==
    \E s \in Slots :
        /\ IsMut(cur[s]) /\ Bare(cur[s])
        /\ Len(vec) = 0
        /\ width > 0
        /\ Len(cur[s].outs) >= 1

\* C6: iter().filter(p) yields exactly the elements satisfying p, each once,
\* in original order, and then exhausted.
C6_FilterSubsequence ==
    \A s \in Slots :
        /\ IsRO(cur[s])
        /\ Len(cur[s].stages) = 1
        /\ cur[s].stages[1].kind = "filter"
        => YieldsThenExhausted(cur[s].outs,
               Filtered(cur[s].stages[1].fn, BaseItems(cur[s], cur[s].from)))

C6_Witness ==
    \E s \in Slots :
        /\ IsRO(cur[s])
        /\ Len(cur[s].stages) = 1
        /\ cur[s].stages[1].kind = "filter"
        /\ cur[s].from = 0
        /\ Len(vec) = 3
        /\ ~Pred(cur[s].stages[1].fn, vec[2])
        /\ Len(cur[s].outs) = 3
        /\ cur[s].outs[2] = Some(vec[3])
        /\ cur[s].outs[3] = None

\* C7: iter().map(f) yields exactly f(e1), ..., f(en) in that order, one item
\* per upstream element, and then exhausted.
C7_MapEach ==
    \A s \in Slots :
        /\ IsRO(cur[s])
        /\ Len(cur[s].stages) = 1
        /\ cur[s].stages[1].kind = "map"
        => YieldsThenExhausted(cur[s].outs,
               Mapped(cur[s].stages[1].fn, BaseItems(cur[s], cur[s].from)))

C7_Witness ==
    \E s \in Slots :
        /\ IsRO(cur[s])
        /\ Len(cur[s].stages) = 1
        /\ cur[s].stages[1].kind = "map"
        /\ cur[s].from = 0
        /\ Len(vec) >= 2
        /\ vec[1] # vec[2]
        /\ Len(cur[s].outs) > Len(vec)

\* C8: find(p) returns the first not-yet-consumed element satisfying p, and
\* returns absent exactly when no remaining element satisfies p.
C8_FindFirst ==
    [][last'.op = "find" =>
        LET R == Remaining(cur[last'.slot])
            k == FirstMatch(last'.fn, R)
        IN last'.ret = IF k = 0 THEN None ELSE Some(R[k])]_vars

C8_Witness ==
    /\ last.op = "find"
    /\ last.ret # None
    /\ LET c == cur[last.slot]
       IN /\ IsRO(c) /\ Bare(c)
          /\ Len(c.outs) >= 2
          /\ c.outs[Len(c.outs) - 1] # None
          /\ ~Pred(last.fn, c.outs[Len(c.outs) - 1][1])
          /\ c.outs[Len(c.outs)] = last.ret

\* C9: after find(p) returns the match at position k the cursor stands at
\* k+1, everything up to and including the match consumed and nothing after
\* it; after find(p) returns absent the cursor is exhausted.
C9_FindPosition ==
    [][\A s \in Slots :
        last'.op = "find" /\ last'.slot = s =>
            LET c == cur[s]
                R == Remaining(c)
                k == FirstMatch(last'.fn, R)
            IN /\ (Remaining(cur[s]))' =
                    IF k = 0 THEN <<>> ELSE SubSeq(R, k + 1, Len(R))
               /\ IsRO(c) /\ Bare(c) =>
                    cur'[s].base.idx =
                        IF k = 0 THEN Len(vec) ELSE c.base.idx + k]_vars

C9_Witness ==
    /\ last.op = "find"
    /\ last.ret # None
    /\ LET c == cur[last.slot]
       IN /\ IsRO(c) /\ Bare(c)
          /\ c.base.idx >= 2
          /\ c.base.idx < Len(vec)
          /\ Pred(last.fn, vec[Len(vec)])

\* C10: fold(init, c) returns c(c(...c(init, e1)..., e(n-1)), en), applying c
\* once per element left to right; over zero elements it returns init
\* without invoking c.
C10_FoldLeft ==
    [][last'.op = "fold" =>
        LET R == Remaining(cur[last'.slot])
        IN /\ last'.ret = Some(FoldLeft(last'.fn, last'.n, R))
           /\ last'.calls = Len(R)
           /\ R = <<>> => last'.ret = Some(last'.n) /\ last'.calls = 0]_vars

C10_Witness ==
    /\ last.op = "fold"
    /\ last.fn = "horner"
    /\ last.calls = 3
    /\ Len(vec) = 3
    /\ vec[1] # vec[3]
    /\ last.ret = Some(FoldLeft("horner", last.n, vec))


\* C11: exhaustion is an idempotent terminal state of both built-in cursors:
\* a next() that returns exhausted leaves the cursor where it was (idx =
\* length, ptr = end), so every later next() returns exhausted too.
C11_ExhaustedStays ==
    [][\A s \in Slots :
        last'.op = "next" /\ last'.slot = s /\ Bare(cur[s]) =>
            /\ last'.ret = None =>
                /\ cur'[s].base = cur[s].base
                /\ IsRO(cur[s]) => cur[s].base.idx = Len(vec)
                /\ IsMut(cur[s]) => cur[s].base.ptr = cur[s].base.end
            /\ Len(cur[s].outs) > 0 /\ cur[s].outs[Len(cur[s].outs)] = None
                => last'.ret = None]_vars

C11_Witness ==
    /\ last.op = "next"
    /\ last.ret = None
    /\ LET c == cur[last.slot]
       IN /\ Bare(c)
          /\ Len(vec) >= 2
          /\ Len(c.outs) = Len(vec) + 2
          /\ c.outs[Len(vec)] # None
          /\ c.outs[Len(vec) + 1] = None


\* C12: building an adapter with filter(p) or map(f) calls neither next() on
\* the wrapped cursor nor the user function; the wrapped cursor's position
\* changes only inside a next() the consumer makes, directly or through find
\* (fold consumes the cursor).
C12_Lazy ==
    [][\A s \in Slots :
        /\ last'.op \in {"filter", "map"} /\ last'.slot = s =>
            /\ cur'[s].base = cur[s].base
            /\ cur'[s].issued = cur[s].issued
            /\ cur'[s].from = BasePos(cur[s])
            /\ cur'[s].outs = <<>>
            /\ Len(cur'[s].stages) = Len(cur[s].stages) + 1
            /\ \A d \in 1..Len(cur'[s].calls) : cur'[s].calls[d] = 0
        /\ Alive(s) /\ cur'[s] # NoCursor /\ cur'[s].base # cur[s].base =>
            last'.op \in {"next", "find"} /\ last'.slot = s]_vars

C12_Witness ==
    /\ last.op = "filter"
    /\ LET c == cur[last.slot]
       IN /\ IsRO(c)
          /\ Len(c.stages) = 2
          /\ c.stages[1].kind = "map"
          /\ c.base.idx = 1
          /\ Len(vec) = 3
          /\ Pred(last.fn, Fn(c.stages[1].fn, vec[2]))


\* C13: adapters compose and keep the order: iter().filter(p).map(f) yields f
\* of the elements satisfying p, in original order, iter().map(f).filter(q)
\* yields those of f(e1)..f(en) that satisfy q, in original order, and each
\* then yields exhausted.
C13_Compose ==
    \A s \in Slots :
        IsRO(cur[s]) /\ Len(cur[s].stages) = 2 =>
            LET c == cur[s]
                B == BaseItems(c, c.from)
                a == c.stages[1]
                b == c.stages[2]
            IN /\ a.kind = "filter" /\ b.kind = "map" =>
                    YieldsThenExhausted(c.outs, Mapped(b.fn, Filtered(a.fn, B)))
               /\ a.kind = "map" /\ b.kind = "filter" =>
                    YieldsThenExhausted(c.outs, Filtered(b.fn, Mapped(a.fn, B)))

C13_Witness ==
    \E s \in Slots :
        LET c == cur[s]
        IN /\ IsRO(c)
           /\ Len(c.stages) = 2
           /\ c.stages[1].kind = "map"
           /\ c.stages[2].kind = "filter"
           /\ c.from = 0
           /\ Len(vec) = 3
           /\ Len(Remaining(c)) = 0
           /\ Len(c.outs) = 3
           /\ c.outs[1] = Some(Fn(c.stages[1].fn, vec[1]))
           /\ c.outs[2] = Some(Fn(c.stages[1].fn, vec[3]))
           /\ c.outs[3] = None


\* C14: a read-only cursor always has 0 <= position <= length of the borrowed
\* container, and its position never decreases: each next() raises it by
\* exactly 1 when position < length and leaves it unchanged otherwise.
C14_PositionInRange ==
    [][\A s \in Slots :
        IsRO(cur'[s]) =>
            /\ 0 <= cur'[s].base.idx
            /\ cur'[s].base.idx <= Len(vec')
            /\ last'.op = "iter" /\ last'.slot = s => cur'[s].base.idx = 0
            /\ IsRO(cur[s]) =>
                /\ cur'[s].base.idx >= cur[s].base.idx
                /\ Len(vec') = Len(vec)
                /\ last'.op = "next" /\ last'.slot = s /\ Bare(cur[s]) =>
                    cur'[s].base.idx =
                        IF cur[s].base.idx < Len(vec)
                        THEN cur[s].base.idx + 1
                        ELSE cur[s].base.idx]_vars

C14_Witness ==
    /\ last.op = "next"
    /\ LET c == cur[last.slot]
       IN /\ IsRO(c) /\ Bare(c)
          /\ Len(vec) = 3
          /\ c.base.idx = 3
          /\ Len(c.outs) = 5

\* C15: an exclusive cursor always has first_address <= current_address <=
\* end_address; current_address starts at first_address, end_address never
\* changes after construction, and each next() that returns an item advances
\* current_address by exactly one element width.
C15_PointerInRange ==
    [][\A s \in Slots :
        IsMut(cur'[s]) =>
            /\ buf' <= cur'[s].base.ptr
            /\ cur'[s].base.ptr <= cur'[s].base.end
            /\ last'.op = "iter_mut" /\ last'.slot = s =>
                cur'[s].base.ptr = buf'
            /\ IsMut(cur[s]) =>
                /\ cur'[s].base.end = cur[s].base.end
                /\ buf' = buf
                /\ last'.op = "next" /\ last'.slot = s /\ Bare(cur[s]) =>
                    cur'[s].base.ptr =
                        IF last'.ret # None
                        THEN cur[s].base.ptr + width
                        ELSE cur[s].base.ptr]_vars

C15_Witness ==
    /\ last.op = "next"
    /\ last.ret # None
    /\ LET c == cur[last.slot]
       IN /\ IsMut(c) /\ Bare(c)
          /\ width = 2
          /\ Len(vec) = 3
          /\ c.base.ptr = buf + 2 * width
          /\ c.base.end = buf + 3 * width


\* C16: for every element width w >= 0, zero-width types included, and every
\* container length n, the exclusive cursor returns an item on each of its
\* first n next() calls and exhausted only on call n+1: it yields as many
\* items as the container held when it was built.
C16_YieldsLengthItems ==
    \A s \in Slots :
        IsMut(cur[s]) /\ Bare(cur[s]) =>
            \A i \in 1..Len(cur[s].outs) :
                (cur[s].outs[i] = None) = (i > Len(vec))

\* The same for the element types that take space.
C16_SizedYieldsLengthItems == width > 0 => C16_YieldsLengthItems


\* The items the wrapped base cursor has yielded since the cursor took its
\* present shape.
Pulled(c) ==
    IF IsRO(c) THEN c.base.idx - c.from
    ELSE IF width = 0 THEN 0
    ELSE (c.base.ptr - c.from) \div width

Least(a, b) == IF a <= b THEN a ELSE b

\* C17: each next() on a Map adapter calls next() on the wrapped cursor
\* exactly once: after k calls the wrapped cursor has yielded min(k, n)
\* items, and the transform ran once per yielded item and never on an
\* exhausted result.
C17_MapPullsOnce ==
    \A s \in Slots :
        LET c == cur[s]
        IN c # NoCursor /\ Len(c.stages) = 1 /\ c.stages[1].kind = "map" =>
            LET k == Len(c.outs)
                n == Len(BaseItems(c, c.from))
            IN /\ Pulled(c) = Least(k, n)
               /\ c.calls[1] = Least(k, n)
               /\ c.calls[1] = Cardinality({i \in 1..k : c.outs[i] # None})

C17_Witness ==
    \E s \in Slots :
        LET c == cur[s]
        IN /\ IsRO(c)
           /\ Len(c.stages) = 1
           /\ c.stages[1].kind = "map"
           /\ c.from = 0
           /\ Len(vec) = 3
           /\ Len(c.outs) = 5
           /\ c.calls[1] = 3

\* C18: a Filter or Map adapter around a built-in cursor, read-only or
\* exclusive, is idempotently exhausted: once its next() returned exhausted
\* every later next() returns exhausted and yields no further item.
C18_AdapterExhaustedStays ==
    \A s \in Slots :
        LET c == cur[s]
        IN c # NoCursor /\ Len(c.stages) = 1 =>
            \A i, j \in 1..Len(c.outs) :
                i < j /\ c.outs[i] = None => c.outs[j] = None

C18_Witness ==
    \E s \in Slots :
        LET c == cur[s]
        IN /\ IsMut(c)
           /\ Len(c.stages) = 1
           /\ c.stages[1].kind = "filter"
           /\ Len(vec) = 3
           /\ Pred(c.stages[1].fn, vec[1])
           /\ ~Pred(c.stages[1].fn, vec[3])
           /\ Len(c.outs) = 3
           /\ c.outs[1] # None
           /\ c.outs[2] = None
           /\ c.outs[3] = None


\* C19: read-only cursors over one container are independent. A cursor starts
\* at position 0 whatever the other cursor's position is, a step on one cursor
\* (next, find, drop, creation) leaves the other cursor as it was, and so in
\* every interleaving each cursor yields the container's items in order.
C19_Independent ==
    [][\A s \in Slots : \A t \in Slots \ {s} :
          /\ (last'.slot = s /\ IsRO(cur[t])) => cur'[t] = cur[t]
          /\ (last'.op = "iter" /\ last'.slot = s) =>
                 /\ cur'[s].base.idx = 0
                 /\ cur'[s].outs = <<>>
          /\ IsRO(cur'[s]) => YieldsThenExhausted(cur'[s].outs, vec')]_vars

\* Two read-only cursors alive at different positions, the one behind having
\* just been advanced by a find while the other sits at the end.
C19_Witness ==
    /\ IsRO(cur[1]) /\ IsRO(cur[2])
    /\ Len(vec) = MaxLen
    /\ cur[1].base.idx = Len(vec)
    /\ cur[2].base.idx \in 1..(Len(vec) - 1)
    /\ last.op = "find" /\ last.slot = 2 /\ last.ret # None

\* C20: while an exclusive cursor is alive, no step adds to the container or
\* creates another cursor, the other cursor variable is empty, and the end
\* address the cursor captured stays the end of the container's buffer.
C20_Exclusive ==
    [][\A s \in Slots :
          IsMut(cur[s]) =>
             /\ last'.op \notin {"add", "iter", "iter_mut"}
             /\ \A t \in Slots \ {s} : cur[t] = NoCursor /\ cur'[t] = NoCursor
             /\ cur[s].base.end = buf + Len(vec) * width
             /\ IsMut(cur'[s]) =>
                    /\ vec' = vec /\ buf' = buf
                    /\ cur'[s].base.end = cur[s].base.end]_vars

\* An exclusive cursor part-way through a container of several elements.
C20_Witness ==
    \E s \in Slots :
       /\ IsMut(cur[s])
       /\ width > 0
       /\ Len(vec) >= 2
       /\ Len(cur[s].issued) = 1
       /\ last.op = "next" /\ last.slot = s

====
